---- MODULE Spec2Model ----
(***************************************************************************)
(* Model of the RVC checkpoint-merge scripts:                              *)
(*   merge_pretrained.py   - merge_state_dicts and the hierarchical main   *)
(*   merge_pretrained0.py  - the same merge_state_dicts and the flat main  *)
(*   verify_rvc_compatibility.py - check_generator / check_discriminator   *)
(*                                                                         *)
(* A parameter key is the sequence of its dot-separated components         *)
(* ("enc_p.weight" is <<"enc_p", "weight">>).  A tensor is one-dimensional:*)
(* the sequence of its elements, its shape the one-tuple of its length.    *)
(* Elements are exact rationals <<num, den>> in lowest terms, so that      *)
(* 1.0 / N and the scaled sum are computed, not assumed; floating-point    *)
(* rounding is not modelled.                                               *)
(***************************************************************************)
EXTENDS Integers, Sequences, FiniteSets, TLC

VARIABLES
    \* ---- one call of merge_state_dicts ----
    state_dicts,    \* the positional arguments: a sequence of object ids
    heap,           \* object id -> collection (key -> tensor)
    ret,            \* the id of the returned collection, 0 before the return
    ret_order,      \* insertion order of the keys of the returned OrderedDict
    \* ---- one run of a merge script, then of the verification functions ----
    script,         \* "hier": merge_pretrained.py, "flat": merge_pretrained0.py
    n_config,       \* number of entries of the configured model list
    fs,             \* input path -> file (present with a checkpoint, or absent)
    comp,           \* the component being processed: "G" or "D"
    idx,            \* index of the loading loop
    base,           \* base_g / base_d
    new_list,       \* new_g_list / new_d_list (g_state_dicts / d_state_dicts)
    merged_new,     \* merged_new_g / merged_new_d
    out,            \* output path -> checkpoint written by torch.save
    verdict,        \* output path -> value returned by check_generator /
                    \* check_discriminator
    \* ---- shared ----
    pc,             \* position of the running program
    log             \* the records handed to logging, in order

mergeVars == <<state_dicts, heap, ret, ret_order>>
pipeVars == <<script, n_config, fs, comp, idx, base, new_list, merged_new,
              out, verdict>>
vars == <<mergeVars, pipeVars, pc, log>>

\* ------------------------------------------------------------------------
\* Bounds
\* ------------------------------------------------------------------------
MaxModels == 3      \* most collections passed to one merge_state_dicts call
MaxConfig == 2      \* most entries of the configured model list in one run

\* ------------------------------------------------------------------------
\* Rational arithmetic
\* ------------------------------------------------------------------------
Abs(x) == IF x < 0 THEN -x ELSE x

RECURSIVE GCD(_, _)
GCD(a, b) == IF b = 0 THEN a ELSE GCD(b, a % b)

Rat(n, d) ==
    LET g == GCD(Abs(n), Abs(d))
    IN  IF n = 0 THEN <<0, 1>> ELSE <<n \div g, d \div g>>

RAdd(x, y) == Rat(x[1] * y[2] + y[1] * x[2], x[2] * y[2])
RMul(x, y) == Rat(x[1] * y[1], x[2] * y[2])

\* A tensor from integer elements.
T(ints) == [i \in DOMAIN ints |-> Rat(ints[i], 1)]

\* t.shape
Shape(t) == <<Len(t)>>

Range(f) == {f[x] : x \in DOMAIN f}

\* The enumerations of a finite set: the orders in which a Python set may
\* be iterated.
RECURSIVE Orders(_)
Orders(S) ==
    IF S = {} THEN {<<>>}
    ELSE UNION {{<<x>> \o o : o \in Orders(S \ {x})} : x \in S}

\* ------------------------------------------------------------------------
\* merge_state_dicts
\* ------------------------------------------------------------------------
\* variant: the weight of a two-model merge, whatever num_models is
WeightHalf(num_models) == Rat(1, 2)

\* weight = 1.0 / num_models
Weight(num_models) == Rat(1, num_models)

\* sum(tensors): 0 + tensors[0] + tensors[1] + ..., elementwise
RECURSIVE SumUpTo(_, _, _)
SumUpTo(tensors, n, i) ==
    IF n = 0 THEN Rat(0, 1) ELSE RAdd(SumUpTo(tensors, n - 1, i), tensors[n][i])

TensorSum(tensors) ==
    [i \in DOMAIN tensors[1] |-> SumUpTo(tensors, Len(tensors), i)]

\* tensor * weight
Scale(t, w) == [i \in DOMAIN t |-> RMul(t[i], w)]

\* all_keys: the union of the key sets
all_keys(sds) == UNION {DOMAIN sds[i] : i \in DOMAIN sds}

\* common_keys: the keys of the first collection that every other one has
common_keys(sds) ==
    {k \in DOMAIN sds[1] : \A i \in 2..Len(sds) : k \in DOMAIN sds[i]}

\* variant: the keys not in all models are never handled
only_in_some_none(sds) == {}

\* only_in_some = all_keys - common_keys
only_in_some(sds) == all_keys(sds) \ common_keys(sds)

\* tensors = [sd[key] for sd in state_dicts]
TensorsOf(sds, key) == [i \in DOMAIN sds |-> sds[i][key]]

\* shapes = [t.shape for t in tensors]
ShapesOf(sds, key) == [i \in DOMAIN sds |-> Shape(sds[i][key])]

\* len(set(shapes)) > 1
ShapeMismatch(sds, key) == Cardinality(Range(ShapesOf(sds, key))) > 1

\* variant: the fallback takes the last model's tensor
MismatchValueLast(sds, key) == TensorsOf(sds, key)[Len(sds)]

\* the fallback of the mismatch branch: merged[key] = tensors[0]
MismatchValue(sds, key) == TensorsOf(sds, key)[1]

\* merged[key] = sum(tensors) * weight
AverageValue(sds, key) == Scale(TensorSum(TensorsOf(sds, key)), Weight(Len(sds)))

\* the body of "for key in common_keys"
CommonValue(sds, key) ==
    IF ShapeMismatch(sds, key) THEN MismatchValue(sds, key)
    ELSE AverageValue(sds, key)

\* variant: the loop does not break, so the last model that has the key wins
LastWith(sds, key) ==
    LET i == CHOOSE i \in DOMAIN sds :
                 /\ key \in DOMAIN sds[i]
                 /\ \A j \in (i + 1)..Len(sds) : key \notin DOMAIN sds[j]
    IN  sds[i][key]

\* "for sd in state_dicts: if key in sd: merged[key] = sd[key]; break"
FirstWith(sds, key) ==
    LET i == CHOOSE i \in DOMAIN sds :
                 /\ key \in DOMAIN sds[i]
                 /\ \A j \in 1..(i - 1) : key \notin DOMAIN sds[j]
    IN  sds[i][key]

\* The collection the two loops build (num_models >= 2).
Merged(sds) ==
    [k \in common_keys(sds) |-> CommonValue(sds, k)]
      @@ [k \in only_in_some(sds) |-> FirstWith(sds, k)]

\* One record handed to logging.
LogRec(level, msg, key, shapes, n, path) ==
    [level |-> level, msg |-> msg, key |-> key, shapes |-> shapes, n |-> n,
     path |-> path]

\* The warnings of the common-key loop, iterating in the order oc.
RECURSIVE Warnings(_, _, _)
Warnings(sds, oc, i) ==
    IF i = 0 THEN <<>>
    ELSE Warnings(sds, oc, i - 1) \o
           (IF ShapeMismatch(sds, oc[i])
            THEN <<LogRec("WARNING", "Shape mismatch", oc[i],
                          ShapesOf(sds, oc[i]), 0, <<>>)>>
            ELSE <<>>)

\* Everything merge_state_dicts logs (num_models >= 2).
MergeLog(sds, oc) ==
    <<LogRec("INFO", "Merging models", <<>>, <<>>, Len(sds), <<>>),
      LogRec("INFO", "Found common parameters", <<>>, <<>>,
             Cardinality(common_keys(sds)), <<>>)>>
      \o Warnings(sds, oc, Len(oc))
      \o (IF only_in_some(sds) # {}
          THEN <<LogRec("INFO", "Found keys not in all models", <<>>, <<>>,
                        Cardinality(only_in_some(sds)), <<>>)>>
          ELSE <<>>)

\* ------------------------------------------------------------------------
\* A call of merge_state_dicts on heap objects
\* ------------------------------------------------------------------------
MergeKeys == {<<"enc_p", "weight">>, <<"dec", "bias">>}
TensorPool == {T(<<1>>), T(<<3>>), T(<<1, 2>>), T(<<3, 0>>)}

Collections ==
    UNION {[ks -> TensorPool] : ks \in SUBSET MergeKeys}

\* the argument objects, dereferenced
Deref(h, ids) == [i \in DOMAIN ids |-> h[ids[i]]]

\* if len(state_dicts) == 1: return state_dicts[0]
SingleCase(ids) == ids[1]

\* variant: merged is bound to the first argument instead of a new object
AliasFirst(h, ids) == ids[1]

\* merged = OrderedDict(): a new object
NewCollection(h, ids) == Cardinality(DOMAIN h) + 1

\* The pipeline variables while only merge_state_dicts is exercised.
PipeIdle ==
    /\ script = "none"
    /\ n_config = 0
    /\ fs = <<>>
    /\ comp = "G"
    /\ idx = 0
    /\ base = <<>>
    /\ new_list = <<>>
    /\ merged_new = <<>>
    /\ out = <<>>
    /\ verdict = <<>>

InitMerge ==
    /\ PipeIdle
    /\ \E n \in 0..MaxModels :
         /\ state_dicts = [i \in 1..n |-> i]
         /\ heap \in [1..n -> Collections]
    /\ ret = 0
    /\ ret_order = <<>>
    /\ pc = "called"
    /\ log = <<>>

\* len(state_dicts) == 0: raise ValueError
MergeEmpty ==
    /\ pc = "called"
    /\ Len(state_dicts) = 0
    /\ pc' = "raised"
    /\ UNCHANGED <<state_dicts, heap, ret, ret_order, log, pipeVars>>

\* variant: the single-argument case returns the still empty merged dict
MergeSingleEmpty ==
    /\ pc = "called"
    /\ Len(state_dicts) = 1
    /\ heap' = (NewCollection(heap, state_dicts) :> <<>>) @@ heap
    /\ ret' = NewCollection(heap, state_dicts)
    /\ ret_order' = <<>>
    /\ pc' = "returned"
    /\ UNCHANGED <<state_dicts, log, pipeVars>>

\* len(state_dicts) == 1: the argument itself is returned
MergeSingle ==
    /\ pc = "called"
    /\ Len(state_dicts) = 1
    /\ ret' = SingleCase(state_dicts)
    /\ ret_order' = <<>>
    /\ pc' = "returned"
    /\ UNCHANGED <<state_dicts, heap, log, pipeVars>>

\* num_models >= 2: both loops, each iterating its set in some order
MergeMany ==
    /\ pc = "called"
    /\ Len(state_dicts) >= 2
    /\ LET sds == Deref(heap, state_dicts)
           m   == NewCollection(heap, state_dicts)
       IN  \E oc \in Orders(common_keys(sds)), op \in Orders(only_in_some(sds)) :
             /\ heap' = (m :> Merged(sds)) @@ heap
             /\ ret' = m
             /\ ret_order' = oc \o op
             /\ log' = log \o MergeLog(sds, oc)
    /\ pc' = "returned"
    /\ UNCHANGED <<state_dicts, pipeVars>>

NextMerge == MergeEmpty \/ MergeSingle \/ MergeMany

Spec == InitMerge /\ [][NextMerge]_vars

\* ------------------------------------------------------------------------
\* The scripts' configuration and paths
\* ------------------------------------------------------------------------
Components == {"G", "D"}

base_model_folder == "assets/model_base_0"

\* merge_pretrained.py: ('Folder Path', Epoch_Number)
new_models_config ==
    << [folder |-> "assets/model1", epoch |-> "35200"],
       [folder |-> "assets/model2", epoch |-> "74000"],
       [folder |-> "assets/model3", epoch |-> "27200"],
       [folder |-> "assets/model4", epoch |-> "96400"],
       [folder |-> "assets/model5", epoch |-> "36400"] >>

\* merge_pretrained0.py
models_config ==
    new_models_config \o << [folder |-> "assets/model6", epoch |-> "50800"] >>

\* The list a run iterates: the first n_config entries of the script's list.
Config(s, n) ==
    SubSeq(IF s = "hier" THEN new_models_config ELSE models_config, 1, n)

\* A path is the sequence of the pieces its f-string joins.
\* f"{folder}/G_{epoch}.pth", f"{folder}/D_{epoch}.pth"
ModelPath(c, e) == <<e.folder, "/", c, "_", e.epoch, ".pth">>

\* f"{base_model_folder}/f0G40k.pth", f"{base_model_folder}/f0D40k.pth"
BasePath(c) == <<base_model_folder, "/f0", c, "40k.pth">>

\* 'merge_G/f0G40k.pth', 'merge_D/f0D40k.pth'; 'merge_G/G.pth', 'merge_D/D.pth'
OutputPath(s, c) ==
    IF s = "hier" THEN <<"merge_", c, "/f0", c, "40k.pth">>
    ELSE <<"merge_", c, "/", c, ".pth">>

\* The checkpoint files component c of a run requires.
InputPaths(s, n, c) ==
    (IF s = "hier" THEN {BasePath(c)} ELSE {})
      \cup {ModelPath(c, Config(s, n)[i]) : i \in 1..n}

\* ------------------------------------------------------------------------
\* Checkpoint files
\* ------------------------------------------------------------------------
Absent == [exists |-> FALSE, ckpt |-> <<>>]
File(ckpt) == [exists |-> TRUE, ckpt |-> ckpt]

ModelKey == <<"model">>

\* {'model': state_dict}
Envelope(sd) == (ModelKey :> sd)

\* ckpt if not isinstance(ckpt, dict) or 'model' not in ckpt
\*      else ckpt.get('model', ckpt)          (every checkpoint here is a dict)
Unwrap(ckpt) == IF ModelKey \in DOMAIN ckpt THEN ckpt[ModelKey] ELSE ckpt

\* variant: a missing file is logged but yields an empty state dict, not None
load_checkpoint_lenient(f, path) ==
    IF ~f[path].exists
    THEN [none |-> FALSE, sd |-> <<>>,
          log |-> <<LogRec("ERROR", "File not found", <<>>, <<>>, 0, path)>>]
    ELSE [none |-> FALSE, sd |-> Unwrap(f[path].ckpt),
          log |-> <<LogRec("INFO", "Loading", <<>>, <<>>, 0, path)>>]

\* load_checkpoint(path): None for a missing file, else the state dict
load_checkpoint(f, path) ==
    IF ~f[path].exists
    THEN [none |-> TRUE, sd |-> <<>>,
          log |-> <<LogRec("ERROR", "File not found", <<>>, <<>>, 0, path)>>]
    ELSE [none |-> FALSE, sd |-> Unwrap(f[path].ckpt),
          log |-> <<LogRec("INFO", "Loading", <<>>, <<>>, 0, path)>>]

GenA ==
    (<<"enc_p", "weight">> :> T(<<1, 2>>)) @@ (<<"dec", "weight">> :> T(<<3>>))
      @@ (<<"enc_q", "weight">> :> T(<<1>>)) @@ (<<"flow", "weight">> :> T(<<3, 0>>))
      @@ (<<"emb_g", "weight">> :> T(<<1>>))
GenB ==
    (<<"enc_p", "weight">> :> T(<<3, 0>>)) @@ (<<"dec", "weight">> :> T(<<1>>))
      @@ (<<"enc_q", "weight">> :> T(<<3>>)) @@ (<<"flow", "weight">> :> T(<<1, 2>>))
      @@ (<<"emb_g", "weight">> :> T(<<1, 2>>))
GenC ==
    (<<"enc_p", "weight">> :> T(<<1, 2>>)) @@ (<<"dec", "weight">> :> T(<<1>>))
      @@ (<<"enc_q", "weight">> :> T(<<1>>)) @@ (<<"emb_g", "weight">> :> T(<<3>>))

DiscA ==
    (<<"discriminators", "0", "weight">> :> T(<<1>>))
      @@ (<<"discriminators", "1", "weight">> :> T(<<1, 2>>))
DiscB ==
    (<<"discriminators", "0", "weight">> :> T(<<3>>))
      @@ (<<"discriminators", "1", "weight">> :> T(<<3>>))
DiscC == (<<"net", "weight">> :> T(<<1>>))

\* What a checkpoint file of a component may be: wrapped with other entries,
\* a bare state dict, wrapped alone, or missing.
FilesOf(c) ==
    IF c = "G"
    THEN {File(Envelope(GenA) @@ (<<"iteration">> :> T(<<7>>))), File(GenB),
          File(Envelope(GenC)), Absent}
    ELSE {File(Envelope(DiscA) @@ (<<"iteration">> :> T(<<7>>))), File(DiscB),
          File(Envelope(DiscC)), Absent}

\* ------------------------------------------------------------------------
\* merge_state_dicts as the scripts call it, on values
\* ------------------------------------------------------------------------
\* the set the common-key loop iterates, empty when the call returns early
IterKeys(sds) == IF Len(sds) = 1 THEN {} ELSE common_keys(sds)

\* what the call returns
merge_state_dicts(sds) == IF Len(sds) = 1 THEN SingleCase(sds) ELSE Merged(sds)

\* what the call logs when its common-key loop iterates in the order oc
MergeLogged(sds, oc) == IF Len(sds) = 1 THEN <<>> ELSE MergeLog(sds, oc)

\* the logs the call can produce, one per iteration order of its set
MergeLogs(sds) == {MergeLogged(sds, oc) : oc \in Orders(IterKeys(sds))}

SavedLog(path) == <<LogRec("INFO", "Saved", <<>>, <<>>, 0, path)>>

\* ------------------------------------------------------------------------
\* main of merge_pretrained.py (hierarchical)
\* ------------------------------------------------------------------------
MergeIdle ==
    /\ state_dicts = <<>>
    /\ heap = <<>>
    /\ ret = 0
    /\ ret_order = <<>>

InitPipe ==
    /\ MergeIdle
    /\ script \in {"hier", "flat"}
    /\ n_config \in 1..MaxConfig
    /\ \E fg \in [InputPaths(script, n_config, "G") -> FilesOf("G")],
          fd \in [InputPaths(script, n_config, "D") -> FilesOf("D")] :
         fs = fg @@ fd
    /\ comp = "G"
    /\ idx = 1
    /\ base = [c \in Components |-> <<>>]
    /\ new_list = [c \in Components |-> <<>>]
    /\ merged_new = [c \in Components |-> <<>>]
    /\ out = <<>>
    /\ verdict = <<>>
    /\ pc = IF script = "hier" THEN "load_base" ELSE "flat_load"
    /\ log = <<>>

\* base_g = load_checkpoint(base_g_path); if base_g is None: return
HierLoadBase ==
    /\ script = "hier"
    /\ pc = "load_base"
    /\ LET r == load_checkpoint(fs, BasePath(comp))
       IN  /\ log' = log \o r.log
           /\ IF r.none
              THEN /\ pc' = "aborted"
                   /\ UNCHANGED base
              ELSE /\ pc' = "load_new"
                   /\ base' = [base EXCEPT ![comp] = r.sd]
    /\ UNCHANGED <<mergeVars, script, n_config, fs, comp, idx, new_list,
                   merged_new, out, verdict>>

\* one iteration of "for folder, epoch in new_models_config"
HierLoadNew ==
    /\ script = "hier"
    /\ pc = "load_new"
    /\ LET r == load_checkpoint(fs, ModelPath(comp, Config(script, n_config)[idx]))
       IN  /\ log' = log \o r.log
           /\ IF r.none
              THEN /\ pc' = "aborted"
                   /\ UNCHANGED <<new_list, idx>>
              ELSE /\ new_list' = [new_list EXCEPT ![comp] = Append(@, r.sd)]
                   /\ idx' = idx + 1
                   /\ pc' = IF idx = n_config THEN "merge_new" ELSE "load_new"
    /\ UNCHANGED <<mergeVars, script, n_config, fs, comp, base, merged_new,
                   out, verdict>>

\* merged_new_g = merge_state_dicts(*new_g_list)
HierMergeNew ==
    /\ script = "hier"
    /\ pc = "merge_new"
    /\ merged_new' = [merged_new EXCEPT ![comp] = merge_state_dicts(new_list[comp])]
    /\ \E lg \in MergeLogs(new_list[comp]) : log' = log \o lg
    /\ pc' = "merge_base"
    /\ UNCHANGED <<mergeVars, script, n_config, fs, comp, idx, base, new_list,
                   out, verdict>>

\* variant: the base model is left out of the second stage
Stage2ArgsNoBase(b, m) == <<m>>

\* the arguments of the second stage: merge_state_dicts(base_g, merged_new_g)
Stage2Args(b, m) == <<b, m>>

\* final_g = merge_state_dicts(base_g, merged_new_g); torch.save({'model': final_g})
HierMergeBase ==
    /\ script = "hier"
    /\ pc = "merge_base"
    /\ LET sds == Stage2Args(base[comp], merged_new[comp])
       IN  /\ out' = (OutputPath(script, comp) :> Envelope(merge_state_dicts(sds)))
                        @@ out
           /\ \E lg \in MergeLogs(sds) :
                log' = log \o lg \o SavedLog(OutputPath(script, comp))
    /\ IF comp = "G"
       THEN /\ comp' = "D"
            /\ idx' = 1
            /\ pc' = "load_base"
       ELSE /\ pc' = "done"
            /\ UNCHANGED <<comp, idx>>
    /\ UNCHANGED <<mergeVars, script, n_config, fs, base, new_list, merged_new,
                   verdict>>

\* ------------------------------------------------------------------------
\* main of merge_pretrained0.py (flat)
\* ------------------------------------------------------------------------
\* one load of the loop "for i, (folder, epoch) in enumerate(models_config)":
\* the generator of entry idx, then its discriminator
FlatLoad ==
    /\ script = "flat"
    /\ pc = "flat_load"
    /\ LET r == load_checkpoint(fs, ModelPath(comp, Config(script, n_config)[idx]))
       IN  /\ log' = log \o r.log
           /\ IF r.none
              THEN /\ pc' = "aborted"
                   /\ UNCHANGED <<new_list, idx, comp>>
              ELSE /\ new_list' = [new_list EXCEPT ![comp] = Append(@, r.sd)]
                   /\ comp' = IF comp = "G" THEN "D" ELSE "G"
                   /\ idx' = IF comp = "G" THEN idx ELSE idx + 1
                   /\ pc' = IF comp = "D" /\ idx = n_config
                            THEN "flat_merge" ELSE "flat_load"
    /\ UNCHANGED <<mergeVars, script, n_config, fs, base, merged_new, out, verdict>>

\* merged_g = merge_state_dicts(*g_state_dicts); torch.save({'model': merged_g})
FlatMerge ==
    /\ script = "flat"
    /\ pc = "flat_merge"
    /\ out' = (OutputPath(script, comp) :> Envelope(merge_state_dicts(new_list[comp])))
                @@ out
    /\ \E lg \in MergeLogs(new_list[comp]) :
         log' = log \o lg \o SavedLog(OutputPath(script, comp))
    /\ IF comp = "G"
       THEN /\ comp' = "D"
            /\ pc' = "flat_merge"
       ELSE /\ pc' = "done"
            /\ UNCHANGED comp
    /\ UNCHANGED <<mergeVars, script, n_config, fs, idx, base, new_list,
                   merged_new, verdict>>

\* ------------------------------------------------------------------------
\* verify_rvc_compatibility.py
\* ------------------------------------------------------------------------
\* k.startswith(prefix + '.'): the key's first component is the prefix and a
\* dot follows it
StartsWith(k, prefix) == Len(k) >= 2 /\ k[1] = prefix

generator_prefixes == <<"enc_p", "dec", "enc_q", "flow", "emb_g">>
discriminator_prefixes == <<"discriminators">>

\* all_found: any(k.startswith(prefix) for k in ckpt.keys()) for every prefix
AllFound(ckpt, required_prefixes) ==
    \A i \in DOMAIN required_prefixes :
        \E k \in DOMAIN ckpt : StartsWith(k, required_prefixes[i])

\* the keys the check iterates: ckpt.keys() of the object torch.load returns
CheckedKeys(ckpt) == ckpt

check_generator(ckpt) == AllFound(CheckedKeys(ckpt), generator_prefixes)
check_discriminator(ckpt) == AllFound(CheckedKeys(ckpt), discriminator_prefixes)

Finished == pc \in {"done", "aborted"}

\* check_generator(path) on a generator checkpoint the script wrote
VerifyGenerator ==
    /\ Finished
    /\ LET p == OutputPath(script, "G")
       IN  /\ p \in DOMAIN out
           /\ p \notin DOMAIN verdict
           /\ verdict' = (p :> check_generator(out[p])) @@ verdict
    /\ UNCHANGED <<mergeVars, script, n_config, fs, comp, idx, base, new_list,
                   merged_new, out, pc, log>>

\* check_discriminator(path) on a discriminator checkpoint the script wrote
VerifyDiscriminator ==
    /\ Finished
    /\ LET p == OutputPath(script, "D")
       IN  /\ p \in DOMAIN out
           /\ p \notin DOMAIN verdict
           /\ verdict' = (p :> check_discriminator(out[p])) @@ verdict
    /\ UNCHANGED <<mergeVars, script, n_config, fs, comp, idx, base, new_list,
                   merged_new, out, pc, log>>

NextPipe ==
    \/ HierLoadBase
    \/ HierLoadNew
    \/ HierMergeNew
    \/ HierMergeBase
    \/ FlatLoad
    \/ FlatMerge
    \/ VerifyGenerator
    \/ VerifyDiscriminator

SpecPipe == InitPipe /\ [][NextPipe]_vars

\* ========================================================================
\* Properties of merge_state_dicts (specification Spec)
\* ========================================================================
NumInputs == Len(state_dicts)
Input(i) == heap[state_dicts[i]]
Output == heap[ret]
InputKeys == UNION {DOMAIN Input(i) : i \in 1..NumInputs}
InAll(k) == \A i \in 1..NumInputs : k \in DOMAIN Input(i)
SameShape(k) == \A i \in 1..NumInputs : Len(Input(i)[k]) = Len(Input(1)[k])

\* the sum of the numerators of element e of key k over the inputs 1..n
\* (the inputs' elements are integers, denominator 1)
RECURSIVE NumSum(_, _, _)
NumSum(k, e, n) == IF n = 0 THEN 0 ELSE NumSum(k, e, n - 1) + Input(n)[k][e][1]

\* C1: the key set of the returned collection is the union of the key sets
\* of the inputs: no input key is dropped, no new key appears.
C1_KeySetIsUnion ==
    pc = "returned" => DOMAIN Output = InputKeys

C1_Witness ==
    /\ pc = "returned"
    /\ NumInputs = 3
    /\ \E k \in InputKeys : InAll(k)
    /\ \E k \in InputKeys : k \notin DOMAIN Input(1) /\ k \notin DOMAIN Input(2)

\* C2: with N >= 2 inputs, a key that every input has with one shape gets
\* the elementwise mean: N times each output element is the sum of the
\* inputs' elements, whatever happens to the other keys.
C2_CommonKeyIsMean ==
    (pc = "returned" /\ NumInputs >= 2) =>
        \A k \in InputKeys :
            (InAll(k) /\ SameShape(k)) =>
                /\ Len(Output[k]) = Len(Input(1)[k])
                /\ \A e \in DOMAIN Output[k] :
                       NumInputs * Output[k][e][1]
                         = Output[k][e][2] * NumSum(k, e, NumInputs)

C2_Witness ==
    /\ pc = "returned"
    /\ NumInputs = 3
    /\ \E k \in InputKeys :
         /\ InAll(k) /\ SameShape(k)
         /\ Input(1)[k] # Input(2)[k]
         /\ Output[k] \notin {Input(i)[k] : i \in 1..NumInputs}
    /\ \E k \in InputKeys : InAll(k) /\ ~SameShape(k)

\* C3: with N >= 2 inputs, a key that every input has but with differing
\* shapes gets the first argument's tensor, a warning naming the key and the
\* observed shapes is logged, and the call still returns with every other
\* key produced (only the empty call raises).
C3_ShapeConflictKeepsFirst ==
    /\ (pc = "returned" /\ NumInputs >= 2) =>
          \A k \in InputKeys :
              (InAll(k) /\ ~SameShape(k)) =>
                  /\ Output[k] = Input(1)[k]
                  /\ \E j \in DOMAIN log :
                         /\ log[j].level = "WARNING"
                         /\ log[j].key = k
                         /\ log[j].shapes
                              = [i \in 1..NumInputs |-> <<Len(Input(i)[k])>>]
                  /\ InputKeys \subseteq DOMAIN Output
    /\ pc = "raised" => NumInputs = 0

C3_Witness ==
    /\ pc = "returned"
    /\ NumInputs = 3
    /\ \E k \in InputKeys :
         /\ InAll(k) /\ ~SameShape(k)
         /\ Len(Input(1)[k]) = Len(Input(2)[k])
         /\ Input(1)[k] # Input(2)[k]
    /\ \E k \in InputKeys : ~InAll(k)

\* C4: with N >= 2 inputs, a key that some but not all inputs have gets the
\* unmodified value of the lowest-indexed argument that has it, in whatever
\* order the key sets were iterated.
C4_PartialKeyFromFirstHolder ==
    (pc = "returned" /\ NumInputs >= 2) =>
        \A k \in InputKeys :
            ~InAll(k) =>
                \E i \in 1..NumInputs :
                    /\ k \in DOMAIN Input(i)
                    /\ \A j \in 1..(i - 1) : k \notin DOMAIN Input(j)
                    /\ Output[k] = Input(i)[k]

C4_Witness ==
    /\ pc = "returned"
    /\ NumInputs = 3
    /\ Len(ret_order) = 2
    /\ \A k \in InputKeys :
         /\ k \notin DOMAIN Input(1)
         /\ k \in DOMAIN Input(2) /\ k \in DOMAIN Input(3)
         /\ Input(2)[k] # Input(3)[k]
    /\ ret_order[1] = <<"enc_p", "weight">>

\* C8: a call with a single collection returns a collection with the same
\* key set and the same value under every key as the argument had.
C8_SingleInputIdentity ==
    [][(pc = "called" /\ NumInputs = 1) =>
          /\ pc' = "returned"
          /\ DOMAIN heap'[ret'] = DOMAIN heap[state_dicts[1]]
          /\ \A k \in DOMAIN heap[state_dicts[1]] :
                 heap'[ret'][k] = heap[state_dicts[1]][k]]_vars

C8_Witness ==
    /\ pc = "returned"
    /\ NumInputs = 1
    /\ Cardinality(DOMAIN Output) = 2

\* C10 as stated: every call with N >= 1 inputs leaves the inputs as they
\* were and returns an object that is none of the inputs.
C10_AlwaysNewObject ==
    [][(pc = "called" /\ pc' = "returned") =>
          /\ \A i \in 1..NumInputs : heap'[state_dicts[i]] = heap[state_dicts[i]]
          /\ \A i \in 1..NumInputs : ret' # state_dicts[i]]_vars

\* C10 amended: every call leaves the inputs as they were; with N >= 2 it
\* returns a newly constructed object, none of the inputs; with N = 1 it
\* returns the argument object itself.
C10_InputsUntouchedNewObjectFromTwo ==
    [][(pc = "called" /\ pc' = "returned") =>
          /\ \A i \in 1..NumInputs : heap'[state_dicts[i]] = heap[state_dicts[i]]
          /\ NumInputs >= 2 =>
                /\ ret' \notin DOMAIN heap
                /\ \A i \in 1..NumInputs : ret' # state_dicts[i]
          /\ NumInputs = 1 => ret' = state_dicts[1]]_vars

C10_Witness ==
    /\ pc = "returned"
    /\ NumInputs = 2
    /\ ret \notin Range(state_dicts)
    /\ Output # Input(1)
    /\ Output # Input(2)

\* ========================================================================
\* Properties of the scripts and the verification (specification SpecPipe)
\* ========================================================================
Written(c) == OutputPath(script, c) \in DOMAIN out
WrittenModel(c) == out[OutputPath(script, c)][ModelKey]
Missing(c) == {p \in InputPaths(script, n_config, c) : ~fs[p].exists}
Peers(c) == new_list[c]
NumPeers(c) == Len(new_list[c])

\* the keys every peer and the base have
HierCommon(c) ==
    {k \in DOMAIN base[c] : \A i \in 1..NumPeers(c) : k \in DOMAIN Peers(c)[i]}

HierSameShape(c, k) ==
    \A i \in 1..NumPeers(c) : Len(Peers(c)[i][k]) = Len(base[c][k])

\* element e of a tensor under torch broadcasting of a one-element tensor
Bc(t, e) == IF Len(t) = 1 THEN t[1] ELSE t[e]

\* the sum over the peers 1..n of the numerator of (broadcast) element e
RECURSIVE PeerSum(_, _, _, _)
PeerSum(c, k, e, n) ==
    IF n = 0 THEN 0 ELSE PeerSum(c, k, e, n - 1) + Bc(Peers(c)[n][k], e)[1]

\* w*B + (1-w)*mean(P1..Pn) with w = 1/2, at element e of key k:
\* 2n * result = n * B + P1 + ... + Pn
HierFormulaAt(c, k, e) ==
    LET n == NumPeers(c)
        o == WrittenModel(c)[k][e]
    IN  2 * n * o[1] = o[2] * (n * Bc(base[c][k], e)[1] + PeerSum(c, k, e, n))

\* the longest of the shapes of key k over the base and the peers
HierWidth(c, k) ==
    CHOOSE w \in {Len(base[c][k])} \cup {Len(Peers(c)[i][k]) : i \in 1..NumPeers(c)} :
        /\ w >= Len(base[c][k])
        /\ \A i \in 1..NumPeers(c) : w >= Len(Peers(c)[i][k])

\* C5 as stated: in the hierarchical script, for every key that the base and
\* all peers have, the written tensor is B/2 + mean(P1..Pn)/2.
C5_HierarchicalFormulaEveryCommonKey ==
    \A c \in Components :
        (script = "hier" /\ Written(c)) =>
            \A k \in HierCommon(c) :
                /\ Len(WrittenModel(c)[k]) = HierWidth(c, k)
                /\ \A e \in 1..HierWidth(c, k) : HierFormulaAt(c, k, e)

\* C5 amended: in the hierarchical script, for every key that the base and
\* all peers have with one and the same shape, the written tensor is
\* B/2 + mean(P1..Pn)/2.
C5_HierarchicalFormulaSameShape ==
    \A c \in Components :
        (script = "hier" /\ Written(c)) =>
            \A k \in HierCommon(c) :
                HierSameShape(c, k) =>
                    /\ Len(WrittenModel(c)[k]) = Len(base[c][k])
                    /\ \A e \in DOMAIN base[c][k] : HierFormulaAt(c, k, e)

C5_Witness ==
    /\ script = "hier"
    /\ Written("G")
    /\ NumPeers("G") = 2
    /\ \E k \in HierCommon("G") :
         /\ HierSameShape("G", k)
         /\ Peers("G")[1][k] # Peers("G")[2][k]
         /\ base["G"][k] # Peers("G")[1][k]
         /\ WrittenModel("G")[k] \notin {base["G"][k], Peers("G")[1][k], Peers("G")[2][k]}
    /\ \E k \in HierCommon("G") : ~HierSameShape("G", k)

C7_ComponentsIndependent ==
    Finished =>
        \A c \in Components : Missing(c) = {} => Written(c)

\* C9: the verification accepts a checkpoint the scripts wrote exactly when
\* the merged collection in it has a key under each required prefix.
C9_VerifierAcceptsCoveringCheckpoint ==
    /\ OutputPath(script, "G") \in DOMAIN verdict =>
          (verdict[OutputPath(script, "G")]
             <=> AllFound(WrittenModel("G"), generator_prefixes))
    /\ OutputPath(script, "D") \in DOMAIN verdict =>
          (verdict[OutputPath(script, "D")]
             <=> AllFound(WrittenModel("D"), discriminator_prefixes))

====
